---- MODULE Spec2Model ----
(***************************************************************************)
(* The three reconciler modules of library/ (ec2_customer_gateway,        *)
(* ec2_vpn_gateway, ec2_vpn_connection) run against one AWS account.      *)
(* A behaviour fixes the module (kind); a manager record m[p] holds the   *)
(* fields of the *Manager object of invocation p and its position in      *)
(* main(); aws is the remote account as the boto calls see and change it. *)
(***************************************************************************)
EXTENDS Integers, Sequences, FiniteSets, TLC

VARIABLES kind, aws, m, run

vars == <<kind, aws, m, run>>

\* ------------------------------------------------------------- bounds
MaxInit == 2        \* resources of the kind that exist before the first invocation
MaxId == 4          \* resource ids the account hands out (MaxInit of them at the start)
MaxSeq == 3         \* invocations of main() one after the other with one tag mapping
MaxRuns == 2        \* invocations of main() with the same parameters, one after the other

\* ------------------------------------------------------------- values
NoneId == 0         \* Python None for an id (falsy)
Ids == 1..MaxId
BogusId == MaxId + 1            \* a well-formed id the account never handed out
NoVpc == "none"
Vpcs == {"vpc-1"}
NoIp == "none"
Ips == {"1.1.1.1", "2.2.2.2"}
NoRoute == "none"
RouteLists == {<< >>, <<"rtb-1">>, <<"rtb-2", "rtb-1">>}
Kinds == {"cgw", "vpn_gw", "vpn_conn"}
Procs == {1, 2}
SeqProcs == {1}

\* A tag dict is the set of its items(): <<key, value>> pairs, one per key.
TagN(v) == <<"Name", v>>
TagE(v) == <<"Env", v>>
DesiredTags == { {}, {TagN("a")}, {TagN("a"), TagE("b")} }
RemoteTagList == << {}, {TagN("a")}, {TagN("b"), TagE("b")}, {TagN("a"), TagE("b")} >>
KeysOf(d) == {t[1] : t \in d}

NoCalls == << >>
Call(op, id, tags, vpc, rt) == [op |-> op, id |-> id, tags |-> tags, vpc |-> vpc, rt |-> rt]
NoInfo == [made |-> FALSE, full |-> FALSE, id |-> NoneId, ip_address |-> NoIp,
           status |-> "gone", attach_status |-> "detached"]

\* ------------------------------------------------------------- the remote account
\* aws.live: ids of the existing resources of the kind; aws.tags, aws.vpc, aws.ip:
\* their tags, attached vpc and ip address; aws.prop: <<route table, gateway>> pairs
\* with route propagation enabled; aws.nextId: the next id create hands out.
AwsInit(n, tg, vp, ip) ==
    [live |-> 1..n, tags |-> tg, vpc |-> vp, ip |-> ip, prop |-> {}, nextId |-> n + 1]

Idle ==
    [pc |-> "idle", state |-> "present", pid |-> NoneId, tags |-> {}, ip_address |-> NoIp,
     vpc |-> NoVpc, route_table_ids |-> << >>, region |-> FALSE, connected |-> FALSE,
     id |-> NoneId, res |-> NoneId, changed |-> FALSE, status |-> "gone",
     attach_status |-> "detached", calls |-> NoCalls, rt_i |-> 1, results |-> FALSE,
     branch |-> "none", tagged |-> FALSE, info |-> NoInfo, msg |-> "", aws0 |-> AwsInit(0, << >>, << >>, << >>)]

\* The account before the first invocation: up to MaxInit resources of the kind. Ids are
\* opaque, so the resources are numbered in the order of their tag sets.
Init ==
    /\ kind \in Kinds
    /\ \E n \in 0..MaxInit :
         \E rk \in [1..n -> 1..Len(RemoteTagList)],
            vp \in [1..n -> IF kind = "vpn_gw" THEN Vpcs \cup {NoVpc} ELSE {NoVpc}],
            ip \in [1..n -> IF kind = "cgw" THEN Ips ELSE {NoIp}] :
           /\ \A i, j \in 1..n : i < j => rk[i] <= rk[j]
           /\ aws = AwsInit(n, [i \in Ids |-> IF i <= n THEN RemoteTagList[rk[i]] ELSE {}],
                               [i \in Ids |-> IF i <= n THEN vp[i] ELSE NoVpc],
                               [i \in Ids |-> IF i <= n THEN ip[i] ELSE NoIp])
    /\ m = [p \in Procs |-> Idle]
    /\ run = 0

\* ------------------------------------------------------------- pure parts of the code
\* "self.tags and set(self.tags.items()).issubset(set(cgw_tags.items()))"
TagEqual(d, r) == d # {} /\ d = r

TagSubset(d, r) == d # {} /\ d \subseteq r

\* get_all_tags(filters={'resource-id': id}) as a dict
TagsOf(a, id) == IF id \in a.live THEN a.tags[id] ELSE {}

\* found_cgws of _get_customer_gateway (the same loop in the two other modules)
FoundByTags(d, a) == {i \in a.live : TagSubset(d, TagsOf(a, i))}

\* _get_customer_gateway / _get_vpn_gateway / _get_vpn_connection: what the constructor
\* stores. res is the returned object (NoneId for None), id is self.id afterwards.
LookupNone(pid) == [res |-> NoneId, id |-> pid, status |-> "gone", fail |-> FALSE]
LookupHitGone(i) == [res |-> i, id |-> i, status |-> "gone", fail |-> FALSE]
LookupHit(i) == [res |-> i, id |-> i, status |-> "ok", fail |-> FALSE]
LookupAmbiguous(pid) == [res |-> NoneId, id |-> pid, status |-> "gone", fail |-> TRUE]

LookupFirstOfMany(pid, d, a) ==
    IF pid # NoneId
    THEN IF pid \in a.live THEN LookupHit(pid) ELSE LookupNone(pid)
    ELSE IF d # {}
         THEN LET found == FoundByTags(d, a)
              IN  IF found = {} THEN LookupNone(pid)
                  ELSE LookupHit(CHOOSE i \in found : \A j \in found : i <= j)
         ELSE LookupNone(pid)

LookupIdThenTags(pid, d, a) ==
    IF pid # NoneId /\ pid \in a.live THEN LookupHit(pid)
    ELSE IF d # {}
         THEN LET found == FoundByTags(d, a)
              IN  IF Cardinality(found) = 1 THEN LookupHit(CHOOSE i \in found : TRUE)
                  ELSE IF Cardinality(found) > 1 THEN LookupAmbiguous(pid)
                  ELSE LookupNone(pid)
         ELSE LookupNone(pid)

Lookup(pid, d, a) ==
    IF pid # NoneId
    THEN IF pid \in a.live THEN LookupHit(pid) ELSE LookupNone(pid)
    ELSE IF d # {}
         THEN LET found == FoundByTags(d, a)
              IN  IF Cardinality(found) = 1 THEN LookupHit(CHOOSE i \in found : TRUE)
                  ELSE IF Cardinality(found) > 1 THEN LookupAmbiguous(pid)
                  ELSE LookupNone(pid)
         ELSE LookupNone(pid)

\* dictadd of _set_tags: the desired items not among the remote items
DictAddByKey(d, r) == {t \in d : t[1] \notin KeysOf(r)}

DictAddAll(d, r) == d

DictAdd(d, r) == {t \in d : t \notin r}

\* create_tags(resource, dictadd) on the account: sets each key of dictadd
ApplyTags(r, add) == {t \in r : t[1] \notin KeysOf(add)} \cup add

\* main(): which method it calls once the manager is constructed
MainBranchNoRoutes(k, state, rts, res) ==
    IF state = "present" THEN "ensure_ok" ELSE "ensure_gone"

MainBranch(k, state, rts, res) ==
    IF state = "present"
    THEN IF k = "vpn_gw" /\ rts # << >> /\ res # NoneId THEN "enable" ELSE "ensure_ok"
    ELSE IF k = "vpn_gw" /\ rts # << >> /\ res # NoneId THEN "disable" ELSE "ensure_gone"

\* ensure_ok: "if not self.cgw: self._create_cgw()", then _set_tags
EnsureOkAlwaysCreate(res) == "create"

EnsureOkFirst(res) == IF res = NoneId THEN "create" ELSE "set_tags"

\* ensure_ok after _set_tags: "if self.vpc and self.id: self._attach_vpn_gw()"
AfterTagsNoAttach(k, vpc, id) == "get_info"

AfterTags(k, vpc, id) ==
    IF k = "vpn_gw" /\ vpc # NoVpc /\ id # NoneId THEN "attach" ELSE "get_info"

\* ensure_gone after the detach step: "if self.vpn_gw: self._delete_vpn_gw()"
DeleteOrDoneNever(res) == "get_info"

DeleteOrDone(res) == IF res # NoneId THEN "delete" ELSE "get_info"

\* ensure_gone: VPNGatewayManager detaches first "if self.vpc and self.id"
EnsureGoneNoDelete(k, vpc, id, res) == "get_info"

EnsureGoneSkipDetach(k, vpc, id, res) == DeleteOrDone(res)

EnsureGoneFirst(k, vpc, id, res) ==
    IF k = "vpn_gw" /\ vpc # NoVpc /\ id # NoneId THEN "detach" ELSE DeleteOrDone(res)

\* ------------------------------------------------------------- main(), step by step
Failed(r, msg) == [r EXCEPT !.pc = "failed", !.msg = msg]

\* main() up to the construction of the manager: parameters and the two checks
RegionMsg == "Region must be specified"
IpMsg == "IP address is required for customer gateway creation"
AmbiguousMsg == "Found more than one"
RemoteMsg == "remote call failed"

ParamCheckRegionOnly(k, state, ip, region) == IF ~region THEN RegionMsg ELSE ""

ParamCheck(k, state, ip, region) ==
    IF ~region THEN RegionMsg
    ELSE IF k = "cgw" /\ state = "present" /\ ip = NoIp THEN IpMsg
    ELSE ""

Invoke(p, state, pid, tg, ip, vpc, rts, region) ==
    LET r == [Idle EXCEPT !.state = state, !.pid = pid, !.tags = tg, !.ip_address = ip,
                          !.vpc = vpc, !.route_table_ids = rts, !.region = region,
                          !.aws0 = aws]
        msg == ParamCheck(kind, state, ip, region)
    IN  m' = [m EXCEPT ![p] = IF msg # "" THEN Failed(r, msg) ELSE [r EXCEPT !.pc = "init"]]

Start(p) ==
    /\ m[p].pc = "idle"
    /\ \E state \in {"present", "absent"}, pid \in {NoneId, BogusId} \cup aws.live,
          tg \in DesiredTags, region \in BOOLEAN,
          ip \in (IF kind = "cgw" THEN {NoIp, "1.1.1.1"} ELSE {NoIp}),
          vpc \in (IF kind = "vpn_gw" THEN Vpcs \cup {NoVpc} ELSE {NoVpc}),
          rts \in (IF kind = "vpn_gw" THEN RouteLists ELSE {<< >>}) :
        Invoke(p, state, pid, tg, ip, vpc, rts, region)
    /\ run' = 1
    /\ UNCHANGED <<kind, aws>>

\* the same playbook task run again after it exited
Rerun(p) ==
    /\ m[p].pc = "exit"
    /\ run < MaxRuns
    /\ Invoke(p, m[p].state, m[p].pid, m[p].tags, m[p].ip_address, m[p].vpc,
              m[p].route_table_ids, m[p].region)
    /\ run' = run + 1
    /\ UNCHANGED <<kind, aws>>

\* *Manager.__init__: connection, then the lookup
Construct(p) ==
    /\ m[p].pc = "init"
    /\ LET l == Lookup(m[p].pid, m[p].tags, aws)
           r == [m[p] EXCEPT !.connected = TRUE, !.changed = FALSE, !.status = l.status,
                             !.attach_status = "detached", !.id = l.id, !.res = l.res]
       IN  m' = [m EXCEPT ![p] = IF l.fail THEN Failed(r, AmbiguousMsg)
                                 ELSE [r EXCEPT !.pc = "main"]]
    /\ UNCHANGED <<kind, aws, run>>

\* main(): "if state == 'present': ... elif state == 'absent': ..."
Main(p) ==
    /\ m[p].pc = "main"
    /\ LET b == MainBranch(kind, m[p].state, m[p].route_table_ids, m[p].res)
           next == CASE b = "ensure_ok" -> EnsureOkFirst(m[p].res)
                     [] b = "ensure_gone" ->
                          EnsureGoneFirst(kind, m[p].vpc, m[p].id, m[p].res)
                     [] OTHER -> b
       IN  m' = [m EXCEPT ![p] = [m[p] EXCEPT !.branch = b, !.pc = next]]
    /\ UNCHANGED <<kind, aws, run>>

Issued(r, c) == [r EXCEPT !.calls = Append(r.calls, c)]

\* ------------------------------------------------------------- the boto calls
\* What each call does to the account when it succeeds. A call on a resource that
\* does not exist raises; any mutating call may also raise (RemoteError).
AwsCreate(a, ip) ==
    [a EXCEPT !.live = @ \cup {a.nextId}, !.tags[a.nextId] = {}, !.vpc[a.nextId] = NoVpc,
              !.ip[a.nextId] = ip, !.nextId = @ + 1]

AwsDelete(a, id) ==
    [a EXCEPT !.live = @ \ {id}, !.tags[id] = {}, !.vpc[id] = NoVpc, !.ip[id] = NoIp,
              !.prop = {x \in @ : x[2] # id}]

AwsCreateTags(a, id, add) == [a EXCEPT !.tags[id] = ApplyTags(@, add)]

AwsAttach(a, id, vpc) == [a EXCEPT !.vpc[id] = vpc]

AwsDetach(a, id, vpc) ==
    IF id \in a.live /\ a.vpc[id] = vpc THEN [a EXCEPT !.vpc[id] = NoVpc] ELSE a

RemoteErrorRollback(p, r, c) ==
    /\ m' = [m EXCEPT ![p] = Failed(Issued(r, c), RemoteMsg)]
    /\ aws' = [r.aws0 EXCEPT !.nextId = aws.nextId]
    /\ UNCHANGED <<kind, run>>

RemoteError(p, r, c) ==
    /\ m' = [m EXCEPT ![p] = Failed(Issued(r, c), RemoteMsg)]
    /\ UNCHANGED <<kind, aws, run>>

\* _create_cgw / _create_vpn_gw / _create_vpn_conn
CreateFieldsNoChanged(r, new) == [r EXCEPT !.res = new, !.id = new, !.status = "created"]

CreateFields(r, new) ==
    [r EXCEPT !.res = new, !.id = new, !.changed = TRUE, !.status = "created"]

Create(p) ==
    /\ m[p].pc = "create"
    /\ LET c == Call("create", NoneId, {}, NoVpc, NoRoute)
       IN  \/ /\ aws.nextId <= MaxId
              /\ aws' = AwsCreate(aws, m[p].ip_address)
              /\ m' = [m EXCEPT ![p] =
                         [CreateFields(Issued(m[p], c), aws.nextId) EXCEPT !.pc = "set_tags"]]
              /\ UNCHANGED <<kind, run>>
           \/ RemoteError(p, m[p], c)

\* _set_tags: get_all_tags, dictadd, "if dictadd: create_tags(resource, dictadd)"
SetTagsFields(r, add) == r

SetTags(p) ==
    /\ m[p].pc = "set_tags"
    /\ LET add == DictAdd(m[p].tags, TagsOf(aws, m[p].id))
           c == Call("create_tags", m[p].id, add, NoVpc, NoRoute)
           next == AfterTags(kind, m[p].vpc, m[p].id)
           r == [m[p] EXCEPT !.tagged = TRUE]
       IN  IF add = {}
           THEN /\ m' = [m EXCEPT ![p] = [SetTagsFields(r, add) EXCEPT !.pc = next]]
                /\ UNCHANGED <<kind, aws, run>>
           ELSE \/ /\ m[p].id \in aws.live
                   /\ aws' = AwsCreateTags(aws, m[p].id, add)
                   /\ m' = [m EXCEPT ![p] =
                              [SetTagsFields(Issued(r, c), add) EXCEPT !.pc = next]]
                   /\ UNCHANGED <<kind, run>>
                \/ RemoteError(p, r, c)

\* _attach_vpn_gw
AttachFields(r, was) == [r EXCEPT !.changed = TRUE, !.attach_status = "attached"]

Attach(p) ==
    /\ m[p].pc = "attach"
    /\ LET c == Call("attach", m[p].id, {}, m[p].vpc, NoRoute)
       IN  \/ /\ m[p].id \in aws.live
              /\ aws' = AwsAttach(aws, m[p].id, m[p].vpc)
              /\ m' = [m EXCEPT ![p] =
                         [AttachFields(Issued(m[p], c), aws.vpc[m[p].id])
                            EXCEPT !.pc = "get_info"]]
              /\ UNCHANGED <<kind, run>>
           \/ RemoteError(p, m[p], c)

\* _detach_vpn_gw; a detach of a gateway that is not attached either raises or
\* returns true without effect
Detach(p) ==
    /\ m[p].pc = "detach"
    /\ LET c == Call("detach", m[p].id, {}, m[p].vpc, NoRoute)
       IN  \/ /\ aws' = AwsDetach(aws, m[p].id, m[p].vpc)
              /\ m' = [m EXCEPT ![p] =
                         [Issued(m[p], c) EXCEPT !.changed = TRUE,
                                                 !.attach_status = "detached",
                                                 !.pc = DeleteOrDone(m[p].res)]]
              /\ UNCHANGED <<kind, run>>
           \/ RemoteError(p, m[p], c)

\* _delete_cgw / _delete_vpn_gw / _delete_vpn_conn
Delete(p) ==
    /\ m[p].pc = "delete"
    /\ LET c == Call("delete", m[p].id, {}, NoVpc, NoRoute)
       IN  \/ /\ m[p].id \in aws.live
              /\ aws' = AwsDelete(aws, m[p].id)
              /\ m' = [m EXCEPT ![p] =
                         [Issued(m[p], c) EXCEPT !.changed = TRUE, !.status = "deleted",
                                                 !.pc = "get_info"]]
              /\ UNCHANGED <<kind, run>>
           \/ RemoteError(p, m[p], c)

\* one iteration of the loop of _enable_route_propagation / _disable_route_propagation,
\* and "if results: self.changed = True" after the last one
RouteStepFirstOnly(r, c) ==
    [Issued(r, c) EXCEPT !.results = TRUE, !.rt_i = @ + 1, !.changed = TRUE,
                         !.pc = "get_info"]

RouteStep(r, c) ==
    LET last == r.rt_i = Len(r.route_table_ids)
    IN  [Issued(r, c) EXCEPT !.results = TRUE, !.rt_i = @ + 1,
                             !.changed = IF last THEN TRUE ELSE @,
                             !.pc = IF last THEN "get_info" ELSE @]

EnableRoute(p) ==
    /\ m[p].pc = "enable"
    /\ LET rt == m[p].route_table_ids[m[p].rt_i]
           c == Call("enable", m[p].id, {}, NoVpc, rt)
       IN  \/ /\ m[p].id \in aws.live
              /\ aws' = [aws EXCEPT !.prop = @ \cup {<<rt, m[p].id>>}]
              /\ m' = [m EXCEPT ![p] = RouteStep(m[p], c)]
              /\ UNCHANGED <<kind, run>>
           \/ RemoteError(p, m[p], c)

DisableRoute(p) ==
    /\ m[p].pc = "disable"
    /\ LET rt == m[p].route_table_ids[m[p].rt_i]
           c == Call("disable", m[p].id, {}, NoVpc, rt)
       IN  \/ /\ m[p].id \in aws.live
              /\ aws' = [aws EXCEPT !.prop = @ \ {<<rt, m[p].id>>}]
              /\ m' = [m EXCEPT ![p] = RouteStep(m[p], c)]
              /\ UNCHANGED <<kind, run>>
           \/ RemoteError(p, m[p], c)

\* ------------------------------------------------------------- get_info and exit_json
MinimalInfo(r) ==
    [made |-> TRUE, full |-> FALSE, id |-> r.id, ip_address |-> r.ip_address,
     status |-> r.status, attach_status |-> "detached"]

FullInfo(r, a, i) ==
    [made |-> TRUE, full |-> TRUE, id |-> i, ip_address |-> a.ip[i],
     status |-> r.status, attach_status |-> r.attach_status]

\* the candidates for check_aws: what the fetch in the try block can return.
\* {} stands for an empty result or a raised error: both end in check_aws = None.
Fetched(k, r, a) ==
    IF r.id # NoneId THEN {r.id} \cap a.live
    ELSE IF k = "cgw" /\ r.ip_address # NoIp
         THEN {i \in a.live : a.ip[i] = r.ip_address}
         ELSE {}

\* CustomerGatewayManager.get_info binds check_aws in neither branch when both
\* self.id and self.ip_address are falsy; "if not check_aws" then raises
\* UnboundLocalError outside the try block.
Unbound(k, r) == k = "cgw" /\ r.id = NoneId /\ r.ip_address = NoIp

GetInfo(p) ==
    /\ m[p].pc = "get_info"
    /\ IF Unbound(kind, m[p])
       THEN m' = [m EXCEPT ![p] = [m[p] EXCEPT !.pc = "crashed",
                                               !.msg = "UnboundLocalError"]]
       ELSE \/ m' = [m EXCEPT ![p] = [m[p] EXCEPT !.pc = "exit",
                                                  !.info = MinimalInfo(m[p])]]
            \/ \E i \in Fetched(kind, m[p], aws) :
                 m' = [m EXCEPT ![p] = [m[p] EXCEPT !.pc = "exit",
                                                    !.info = FullInfo(m[p], aws, i)]]
    /\ UNCHANGED <<kind, aws, run>>

Step(p) ==
    \/ Start(p)
    \/ Rerun(p)
    \/ Construct(p)
    \/ Main(p)
    \/ Create(p)
    \/ SetTags(p)
    \/ Attach(p)
    \/ Detach(p)
    \/ Delete(p)
    \/ EnableRoute(p)
    \/ DisableRoute(p)
    \/ GetInfo(p)

Next == \E p \in SeqProcs : Step(p)

Spec == Init /\ [][Next]_vars

\* ------------------------------------------------------------- two invocations at once
\* Two playbook runs of the same module against one account, with no id parameter and
\* no route tables, their boto calls interleaved in any order.
InitConc == Init /\ Cardinality(aws.live) <= 1

StartConc(p) ==
    /\ m[p].pc = "idle"
    /\ \E state \in {"present", "absent"}, tg \in DesiredTags,
          vpc \in (IF kind = "vpn_gw" THEN Vpcs \cup {NoVpc} ELSE {NoVpc}) :
        Invoke(p, state, NoneId, tg, IF kind = "cgw" THEN "1.1.1.1" ELSE NoIp, vpc,
               << >>, TRUE)
    /\ run' = 1
    /\ UNCHANGED <<kind, aws>>

StepConc(p) ==
    \/ StartConc(p)
    \/ Construct(p)
    \/ Main(p)
    \/ Create(p)
    \/ SetTags(p)
    \/ Attach(p)
    \/ Detach(p)
    \/ Delete(p)
    \/ GetInfo(p)

NextConc == \E p \in Procs : StepConc(p)

SpecConc == InitConc /\ [][NextConc]_vars

\* ------------------------------------------------------------- one tag mapping, many runs
\* Playbook tasks of one module run one after the other, never two at once, all with the
\* same non-empty tags and each with its own state and id parameter. The tasks of
\* process 1 name no id or the id of a gateway that carries the tags; the tasks of
\* process 2 name any id: none, one of a live resource, or one the account never
\* handed out. Before the first task the account holds at most one resource of the
\* kind, and no resource carries the tags.
SeqTags == IF m[1].pc # "idle" THEN m[1].tags ELSE m[2].tags

IdsNamed(p, tg) ==
    IF p = 1 THEN {NoneId} \cup FoundByTags(tg, aws) ELSE {NoneId, BogusId} \cup aws.live

InvokeSeq(p) ==
    /\ \A q \in Procs : m[q].pc \in {"idle", "exit"}
    /\ run < MaxSeq
    /\ \E state \in {"present", "absent"}, tg \in DesiredTags \ {{}},
          vpc \in (IF kind = "vpn_gw" THEN Vpcs \cup {NoVpc} ELSE {NoVpc}) :
        /\ IF run = 0 THEN FoundByTags(tg, aws) = {} ELSE tg = SeqTags
        /\ \E pid \in IdsNamed(p, tg) :
             Invoke(p, state, pid, tg, IF kind = "cgw" THEN "1.1.1.1" ELSE NoIp, vpc,
                    << >>, TRUE)
    /\ run' = run + 1
    /\ UNCHANGED <<kind, aws>>

StepSeq(p) ==
    \/ InvokeSeq(p)
    \/ Construct(p)
    \/ Main(p)
    \/ Create(p)
    \/ SetTags(p)
    \/ Attach(p)
    \/ Detach(p)
    \/ Delete(p)
    \/ GetInfo(p)

NextSeq == \E p \in Procs : StepSeq(p)

InitSeq == Init /\ Cardinality(aws.live) <= 1

SpecSeq == InitSeq /\ [][NextSeq]_vars

\* ------------------------------------------------------------- what the claims speak of
\* The remote resources that satisfy the id/tag criteria of invocation r in account a:
\* the one with the supplied id, or, with no id, those carrying every desired tag.
Matches(r, a) ==
    IF r.pid # NoneId THEN {i \in a.live : i = r.pid}
    ELSE IF r.tags # {} THEN {i \in a.live : r.tags \subseteq a.tags[i]}
    ELSE {}

CallsOf(r, op) == {i \in 1..Len(r.calls) : r.calls[i].op = op}

\* main() is past the construction of the manager and has not failed
Running(r) == r.pc \in {"create", "set_tags", "attach", "detach", "delete", "enable",
                        "disable", "get_info", "exit", "crashed"}

\* ensure_ok has returned
EnsureOkDone(r) == r.branch = "ensure_ok" /\ r.pc \in {"get_info", "exit", "crashed"}

\* C1: with zero resources matching the id/tag criteria, a state=present invocation
\* runs ensure_ok, which issues exactly one create call and takes the new id as the
\* manager's id; once ensure_ok has returned changed is true and status is 'created',
\* and the report carries status 'created', the new id and, for the customer gateway,
\* the supplied ip_address.
C1_CreateWhenNoMatch ==
    \A p \in Procs :
      LET r == m[p]
      IN  (r.state = "present" /\ Matches(r, r.aws0) = {}) =>
            /\ Running(r) /\ r.pc # "create" =>
                 /\ r.branch = "ensure_ok"
                 /\ Cardinality(CallsOf(r, "create")) = 1
                 /\ r.id = r.aws0.nextId /\ r.id \in aws.live /\ r.id \notin r.aws0.live
                 /\ Cardinality(aws.live) = Cardinality(r.aws0.live) + 1
                 /\ r.changed /\ r.status = "created"
            /\ r.pc = "exit" =>
                 /\ r.info.status = "created" /\ r.info.id = r.id
                 /\ kind = "cgw" => r.info.ip_address = r.ip_address

C1_Witness ==
    \E p \in Procs :
      /\ kind = "cgw" /\ m[p].pc = "exit" /\ m[p].state = "present"
      /\ m[p].tags = {TagN("a")} /\ m[p].ip_address = "1.1.1.1"
      /\ Matches(m[p], m[p].aws0) = {} /\ m[p].aws0.live # {}
      /\ m[p].changed /\ m[p].info.full /\ m[p].info.status = "created"
      /\ m[p].info.ip_address = "1.1.1.1"

\* C2: with exactly one resource matching, ensure_ok issues no create call, still runs
\* _set_tags on that resource, and leaves the set of remote resources as it was (also
\* when a later call of ensure_ok raises).
C2_NoCreateWhenOneMatch ==
    \A p \in Procs :
      LET r == m[p]
      IN  (r.branch = "ensure_ok" /\ Cardinality(Matches(r, r.aws0)) = 1) =>
            /\ CallsOf(r, "create") = {}
            /\ aws.live = r.aws0.live
            /\ r.id \in Matches(r, r.aws0)
            /\ r.pc # "create"
            /\ r.pc \in {"attach", "get_info", "exit", "crashed", "failed"} => r.tagged
            /\ EnsureOkDone(r) => r.tags \subseteq TagsOf(aws, r.id)

C2_Witness ==
    \E p \in Procs :
      /\ m[p].pc = "exit" /\ m[p].branch = "ensure_ok" /\ m[p].pid \in Ids
      /\ Cardinality(Matches(m[p], m[p].aws0)) = 1
      /\ Cardinality(m[p].aws0.live) = 2
      /\ m[p].tagged /\ CallsOf(m[p], "create_tags") # {}

\* C3: with more than one resource matching, for state=present and state=absent alike,
\* the invocation (once its parameters are accepted) ends in the fatal "more than one"
\* error, with no mutating call issued and the account as it was.
C3_AmbiguousAborts ==
    \A p \in Procs :
      LET r == m[p]
      IN  (Cardinality(Matches(r, r.aws0)) > 1 /\ r.pc \notin {"idle", "init"}
            /\ r.msg \notin {RegionMsg, IpMsg}) =>
            /\ r.pc = "failed" /\ r.msg = AmbiguousMsg
            /\ r.calls = NoCalls
            /\ aws = r.aws0

C3_Witness ==
    \E p \in Procs :
      /\ kind = "vpn_gw" /\ m[p].state = "absent" /\ m[p].vpc # NoVpc
      /\ m[p].route_table_ids # << >>
      /\ m[p].pc = "failed" /\ m[p].msg = AmbiguousMsg
      /\ Cardinality(Matches(m[p], m[p].aws0)) = 2

\* C4: as claimed, ensure_gone with nothing found is a no-op: no mutating call is
\* issued (no detach, no delete), the invocation does not fail, and it reports
\* changed=false and status 'gone'.
C4_EnsureGoneNoOp ==
    \A p \in Procs :
      LET r == m[p]
      IN  (r.branch = "ensure_gone" /\ r.res = NoneId) =>
            /\ r.calls = NoCalls
            /\ r.pc \notin {"detach", "delete", "failed", "crashed"}
            /\ r.pc = "exit" => ~r.changed /\ r.info.status = "gone"

\* C5 as claimed: after a state=absent invocation that completed, no resource matching
\* the supplied id (or, with no id, the supplied tags) remains, whatever the other
\* parameters are.
C5_AbsentRemoves ==
    \A p \in Procs :
      (m[p].pc = "exit" /\ m[p].state = "absent") => Matches(m[p], aws) = {}

\* C5 as amended: the same, except in the VPN gateway module with a non-empty
\* route_table_ids and a gateway found by the lookup: there only route propagation is
\* disabled, no delete is issued and the gateway remains.
C5_AbsentRemovesUnlessRoutes ==
    \A p \in Procs :
      LET r == m[p]
      IN  (r.pc = "exit" /\ r.state = "absent") =>
            IF kind = "vpn_gw" /\ r.route_table_ids # << >> /\ Matches(r, r.aws0) # {}
            THEN /\ aws.live = r.aws0.live
                 /\ Matches(r, aws) = Matches(r, r.aws0)
                 /\ \A i \in 1..Len(r.calls) : r.calls[i].op = "disable"
            ELSE Matches(r, aws) = {}

C5_Witness ==
    \E p \in Procs :
      /\ kind = "vpn_gw" /\ m[p].pc = "exit" /\ m[p].state = "absent"
      /\ m[p].pid = NoneId /\ m[p].vpc # NoVpc /\ m[p].route_table_ids = << >>
      /\ Matches(m[p], m[p].aws0) # {} /\ Cardinality(m[p].aws0.live) = 2
      /\ CallsOf(m[p], "detach") # {} /\ CallsOf(m[p], "delete") # {}
      /\ m[p].status = "deleted"

\* C6: as claimed, get_info never raises: no invocation ends in an exception of
\* get_info.
C6_GetInfoNeverRaises == \A p \in Procs : m[p].pc # "crashed"

\* C7: as claimed, once _set_tags has issued its tag-creation call and returned, the
\* changed flag is true.
C7_TagsAddedMarksChanged ==
    \A p \in Procs :
      (CallsOf(m[p], "create_tags") # {} /\ m[p].pc \in {"attach", "get_info", "exit", "crashed"})
        => m[p].changed

\* C8: tag reconciliation is additive-only: a _set_tags that returns leaves every
\* desired key/value pair on the resource and keeps every remote tag whose key is not a
\* desired key; and no step of any invocation takes a tag key off a resource that
\* stays in place.
C8_TagsAdditive ==
    [][ /\ \A i \in aws.live \cap aws'.live : KeysOf(aws.tags[i]) \subseteq KeysOf(aws'.tags[i])
        /\ \A p \in Procs :
             (m[p].pc = "set_tags" /\ m'[p].pc \notin {"set_tags", "failed"}) =>
               /\ m[p].tags \subseteq TagsOf(aws', m[p].id)
               /\ \A t \in TagsOf(aws, m[p].id) :
                    t[1] \notin KeysOf(m[p].tags) => t \in TagsOf(aws', m[p].id)
               /\ \A i \in Ids \ {m[p].id} : aws'.tags[i] = aws.tags[i] ]_vars

C8_Witness ==
    \E p \in Procs :
      /\ m[p].pc = "exit" /\ m[p].branch = "ensure_ok" /\ m[p].tags = {TagN("a")}
      /\ TagsOf(m[p].aws0, m[p].id) = {TagN("b"), TagE("b")}
      /\ TagsOf(aws, m[p].id) = {TagN("a"), TagE("b")}
      /\ CallsOf(m[p], "create_tags") # {}

\* C9: a _set_tags that finds every desired pair already on the resource issues no
\* call, does not fail, and leaves the account and the changed flag as they were.
C9_TagsNoOpWhenSuperset ==
    [][ \A p \in Procs :
          (m[p].pc = "set_tags" /\ m[p].tags \subseteq TagsOf(aws, m[p].id)
            /\ m'[p].pc # "set_tags") =>
            /\ m'[p].pc # "failed"
            /\ m'[p].calls = m[p].calls
            /\ aws' = aws
            /\ m'[p].changed = m[p].changed ]_vars

C9_Witness ==
    \E p \in Procs :
      /\ m[p].pc = "exit" /\ m[p].branch = "ensure_ok" /\ m[p].tagged
      /\ m[p].tags = {TagN("a")} /\ TagsOf(m[p].aws0, m[p].id) = {TagN("a"), TagE("b")}
      /\ m[p].calls = NoCalls /\ aws = m[p].aws0 /\ ~m[p].changed

\* C10: as claimed, a second state=present invocation with the same parameters, right
\* after a first one that completed, issues no create and no tag-creation call, leaves
\* the account as it is and reports changed=false.
C10_PresentIdempotent ==
    \A p \in Procs :
      LET r == m[p]
      IN  (run >= 2 /\ r.pc = "exit" /\ r.state = "present") =>
            /\ CallsOf(r, "create") = {} /\ CallsOf(r, "create_tags") = {}
            /\ aws = r.aws0
            /\ ~r.changed

\* C11: when the lookup found a resource, ensure_gone issues exactly one delete call,
\* with the id of that resource (the supplied id or the one adopted from the unique tag
\* match); once it has returned changed is true, status is 'deleted' (also in the
\* report), and exactly that resource is gone from the account.
C11_DeleteFound ==
    \A p \in Procs :
      LET r == m[p]
      IN  (r.branch = "ensure_gone" /\ r.res # NoneId
            /\ r.pc \in {"get_info", "exit", "crashed"}) =>
            /\ Cardinality(CallsOf(r, "delete")) = 1
            /\ \A i \in CallsOf(r, "delete") :
                 r.calls[i].id = r.res /\ Matches(r, r.aws0) = {r.calls[i].id}
            /\ aws.live = r.aws0.live \ {r.res}
            /\ r.changed /\ r.status = "deleted"
            /\ r.pc = "exit" => r.info.status = "deleted"

C11_Witness ==
    \E p \in Procs :
      /\ kind = "vpn_conn" /\ m[p].pc = "exit" /\ m[p].branch = "ensure_gone"
      /\ m[p].pid = NoneId /\ m[p].res = 2 /\ m[p].aws0.live = {1, 2}
      /\ aws.live = {1} /\ m[p].info.status = "deleted" /\ m[p].changed

\* C12: with an id supplied, the constructor's lookup returns the resource with exactly
\* that id (status 'ok') or none (status 'gone', id kept); tags play no part: the result
\* is none even when resources carry the desired tags, and the ambiguous-match error is
\* never raised.
C12_LookupById ==
    \A p \in Procs :
      LET r == m[p]
      IN  r.pid # NoneId =>
            /\ r.msg # AmbiguousMsg
            /\ r.pc = "main" =>
                 IF r.pid \in r.aws0.live
                 THEN r.res = r.pid /\ r.id = r.pid /\ r.status = "ok"
                 ELSE r.res = NoneId /\ r.id = r.pid /\ r.status = "gone"

C12_Witness ==
    \E p \in Procs :
      /\ m[p].pc = "main" /\ m[p].pid = BogusId /\ m[p].res = NoneId
      /\ m[p].status = "gone"
      /\ Cardinality({i \in aws.live : m[p].tags # {} /\ m[p].tags \subseteq aws.tags[i]}) = 2

\* C13: with no id and a non-empty desired tag mapping, a resource matches exactly when
\* it carries every desired pair (extra tags allowed): no match gives none without
\* error, one match gives that resource, its id adopted, status 'ok'; with neither id
\* nor tags the result is none.
C13_LookupByTags ==
    \A p \in Procs :
      LET r == m[p]
          f == {i \in r.aws0.live : r.tags \subseteq r.aws0.tags[i]}
      IN  r.pid = NoneId =>
            /\ (r.tags = {} \/ Cardinality(f) <= 1) => r.msg # AmbiguousMsg
            /\ r.pc = "main" =>
                 IF r.tags # {} /\ Cardinality(f) = 1
                 THEN r.res \in f /\ r.id = r.res /\ r.status = "ok"
                 ELSE r.res = NoneId /\ r.id = NoneId /\ r.status = "gone"

C13_Witness ==
    \E p \in Procs :
      /\ m[p].pc = "main" /\ m[p].pid = NoneId /\ m[p].tags = {TagN("a")}
      /\ m[p].res = 2 /\ m[p].id = 2 /\ m[p].status = "ok"
      /\ aws.tags[2] = {TagN("a"), TagE("b")} /\ aws.tags[1] = {TagN("b"), TagE("b")}

\* C14: VPN gateway, state=present, non-empty route_table_ids and the gateway found:
\* ensure_ok is not run (no create, no _set_tags, no attach); one enable call per listed
\* route table, in list order, each with the gateway's id. In no invocation do enable
\* calls and create/tag/attach calls both occur.
C14_EnableInsteadOfEnsureOk ==
    \A p \in Procs :
      LET r == m[p]
      IN  /\ ~(CallsOf(r, "enable") # {} /\
               (CallsOf(r, "create") \cup CallsOf(r, "create_tags") \cup CallsOf(r, "attach")) # {})
          /\ (kind = "vpn_gw" /\ r.state = "present" /\ r.route_table_ids # << >>
               /\ Matches(r, r.aws0) # {} /\ (Running(r) \/ r.msg = RemoteMsg)) =>
               /\ r.branch = "enable" /\ ~r.tagged
               /\ Len(r.calls) <= Len(r.route_table_ids)
               /\ \A i \in 1..Len(r.calls) :
                    /\ r.calls[i].op = "enable"
                    /\ r.calls[i].rt = r.route_table_ids[i]
                    /\ r.calls[i].id \in Matches(r, r.aws0)
               /\ r.pc \in {"get_info", "exit"} => Len(r.calls) = Len(r.route_table_ids)

C14_Witness ==
    \E p \in Procs :
      /\ kind = "vpn_gw" /\ m[p].pc = "exit" /\ m[p].state = "present"
      /\ m[p].route_table_ids = <<"rtb-2", "rtb-1">> /\ m[p].pid = NoneId
      /\ Len(m[p].calls) = 2 /\ m[p].calls[1].rt = "rtb-2" /\ m[p].calls[2].rt = "rtb-1"
      /\ aws.prop = {<<"rtb-1", m[p].id>>, <<"rtb-2", m[p].id>>}

\* C15: with no region resolved, or state=present without ip_address in the customer
\* gateway module, the invocation fails with the matching message before the connection
\* is opened: no lookup, no remote call, the account as it was.
C15_MissingInputFailsFirst ==
    \A p \in Procs :
      LET r == m[p]
      IN  (r.pc # "idle" /\
            (~r.region \/ (kind = "cgw" /\ r.state = "present" /\ r.ip_address = NoIp))) =>
            /\ r.pc = "failed"
            /\ r.msg = IF ~r.region THEN RegionMsg ELSE IpMsg
            /\ ~r.connected /\ r.calls = NoCalls /\ r.id = NoneId /\ r.res = NoneId
            /\ aws = r.aws0

C15_Witness ==
    \E p \in Procs :
      /\ kind = "cgw" /\ m[p].pc = "failed" /\ m[p].msg = IpMsg /\ m[p].region
      /\ m[p].state = "present" /\ ~m[p].connected /\ m[p].pid \in aws.live

\* The resources of account a that carry every pair of the tag mapping d
Carrying(d, a) == {i \in a.live : d \subseteq a.tags[i]}

\* C16: nothing protects concurrent invocations: when two state=present invocations
\* with the same non-empty tags and no id have both issued their create (each lookup
\* having seen no match) and both have finished ensure_ok, each holds its own new
\* resource and reports changed / 'created', and more than one resource carries the
\* desired tags.
C16_RaceCreatesTwo ==
    \A p, q \in Procs :
      LET r == m[p]
          o == m[q]
      IN  (p # q /\ r.state = "present" /\ o.state = "present"
            /\ r.tags # {} /\ r.tags = o.tags /\ r.pid = NoneId /\ o.pid = NoneId
            /\ CallsOf(r, "create") # {} /\ CallsOf(o, "create") # {}
            /\ EnsureOkDone(r) /\ EnsureOkDone(o)) =>
            /\ r.id # o.id /\ {r.id, o.id} \subseteq Carrying(r.tags, aws)
            /\ Cardinality(Carrying(r.tags, aws)) >= 2
            /\ r.changed /\ o.changed /\ r.status = "created" /\ o.status = "created"

C16_Witness ==
    \E p, q \in Procs :
      /\ p # q /\ m[p].pc = "exit" /\ m[q].pc = "exit"
      /\ m[p].state = "present" /\ m[q].state = "present"
      /\ m[p].pid = NoneId /\ m[q].pid = NoneId
      /\ m[p].tags = {TagN("a")} /\ m[q].tags = {TagN("a")}
      /\ Carrying(m[p].tags, m[p].aws0) = {} /\ Carrying(m[q].tags, m[q].aws0) = {}
      /\ m[p].status = "created" /\ m[q].status = "created"
      /\ Cardinality(Carrying({TagN("a")}, aws)) = 2

\* What an earlier, successful call c of invocation r has left in the account
Persists(r, c) ==
    CASE c.op = "create" -> r.id \in aws.live /\ r.id \notin r.aws0.live
      [] c.op = "create_tags" -> c.tags \subseteq TagsOf(aws, c.id)
      [] c.op = "attach" -> aws.vpc[c.id] = c.vpc
      [] c.op = "detach" -> c.id \in aws.live => aws.vpc[c.id] = NoVpc
      [] c.op = "delete" -> c.id \notin aws.live
      [] c.op = "enable" -> <<c.rt, c.id>> \in aws.prop
      [] c.op = "disable" -> <<c.rt, c.id>> \notin aws.prop
      [] OTHER -> FALSE

\* C17: an invocation ended by a failing remote call has that call as its last one (no
\* further call, and the failing call is not issued a second time), and every mutation
\* of the calls before it is still in the account: nothing is rolled back.
C17_FailureNoRetryNoRollback ==
    \A p \in Procs :
      LET r == m[p]
          n == Len(r.calls)
      IN  (r.pc = "failed" /\ r.msg = RemoteMsg) =>
            /\ n >= 1
            /\ \A i \in 1..(n - 1) : r.calls[i] # r.calls[n] /\ Persists(r, r.calls[i])
            /\ n = 1 => aws = r.aws0

C17_Witness ==
    \E p \in Procs :
      /\ m[p].pc = "failed" /\ m[p].msg = RemoteMsg /\ Len(m[p].calls) = 2
      /\ m[p].calls[1].op = "create" /\ m[p].calls[2].op = "create_tags"
      /\ m[p].id \in aws.live /\ m[p].id \notin m[p].aws0.live
      /\ aws.tags[m[p].id] = {} /\ m[p].tags # {}

\* C18: an invocation issues at most one tag-creation call; it issues one exactly when
\* some desired pair is not on the resource with that key and that value, and the
\* payload is exactly those pairs (a pair whose key is there with another value is in
\* it, a pair already there is not).
C18_TagPayloadExact ==
    \A p \in Procs :
      LET r == m[p]
          before == IF CallsOf(r, "create") # {} THEN {} ELSE TagsOf(r.aws0, r.id)
          missing == {t \in r.tags : t \notin before}
      IN  /\ Cardinality(CallsOf(r, "create_tags")) <= 1
          /\ \A i \in CallsOf(r, "create_tags") :
               r.calls[i].tags = missing /\ r.calls[i].id = r.id
          /\ r.tagged => (CallsOf(r, "create_tags") # {} <=> missing # {})

C18_Witness ==
    \E p \in Procs :
      /\ m[p].pc = "exit" /\ m[p].tags = {TagN("a"), TagE("b")}
      /\ TagsOf(m[p].aws0, m[p].id) = {TagN("b"), TagE("b")}
      /\ \E i \in CallsOf(m[p], "create_tags") : m[p].calls[i].tags = {TagN("a")}
      /\ TagsOf(aws, m[p].id) = {TagN("a"), TagE("b")}

\* C19: VPN gateway ensure_gone: with a vpc and a resource id known, the first call is
\* detach(id, vpc), issued once, and a delete comes only after it; without them no detach
\* is issued; a delete is issued only if the lookup found the gateway; after a detach
\* that returned, attach_status is 'detached' and changed is true.
C19_DetachBeforeDelete ==
    \A p \in Procs :
      LET r == m[p]
      IN  (kind = "vpn_gw" /\ r.branch = "ensure_gone") =>
            /\ \A i \in CallsOf(r, "delete") :
                 /\ r.res # NoneId /\ r.calls[i].id \in Matches(r, r.aws0)
                 /\ \A j \in CallsOf(r, "detach") : j < i
            /\ (r.vpc = NoVpc \/ r.id = NoneId) => CallsOf(r, "detach") = {}
            /\ (r.vpc # NoVpc /\ r.id # NoneId /\ r.pc \in {"delete", "get_info", "exit"}) =>
                 /\ CallsOf(r, "detach") = {1}
                 /\ r.calls[1].id = r.id /\ r.calls[1].vpc = r.vpc
                 /\ r.attach_status = "detached" /\ r.changed

C19_Witness ==
    \E p \in Procs :
      /\ kind = "vpn_gw" /\ m[p].pc = "exit" /\ m[p].branch = "ensure_gone"
      /\ Len(m[p].calls) = 2
      /\ m[p].calls[1].op = "detach" /\ m[p].calls[2].op = "delete"
      /\ m[p].aws0.vpc[m[p].id] = m[p].vpc /\ m[p].id \notin aws.live

\* C20: VPN gateway ensure_ok: with a vpc supplied, exactly one attach(id, vpc) is
\* issued, as the last call, after the create (if any) and after _set_tags; when it
\* returns attach_status is 'attached' and changed is true, when it raises they are as
\* before; with no vpc no attach is issued, attach_status stays 'detached' and changed
\* is true only if the gateway was created.
C20_AttachStep ==
    \A p \in Procs :
      LET r == m[p]
          n == Len(r.calls)
          created == CallsOf(r, "create") # {}
      IN  /\ (kind # "vpn_gw" \/ r.vpc = NoVpc) =>
               CallsOf(r, "attach") = {} /\ r.attach_status = "detached"
          /\ (kind = "vpn_gw" /\ r.branch = "ensure_ok") =>
               /\ Cardinality(CallsOf(r, "attach")) <= 1
               /\ \A i \in CallsOf(r, "attach") :
                    /\ i = n /\ r.tagged
                    /\ r.calls[i].id = r.id /\ r.calls[i].vpc = r.vpc /\ r.id \in aws.live
                    /\ r.pc = "failed" => r.attach_status = "detached" /\ (r.changed <=> created)
               /\ EnsureOkDone(r) =>
                    IF r.vpc # NoVpc
                    THEN /\ CallsOf(r, "attach") = {n}
                         /\ r.attach_status = "attached" /\ r.changed
                         /\ aws.vpc[r.id] = r.vpc
                    ELSE r.changed <=> created

C20_Witness ==
    \E p \in Procs :
      /\ kind = "vpn_gw" /\ m[p].pc = "exit" /\ m[p].branch = "ensure_ok"
      /\ Len(m[p].calls) = 3 /\ m[p].calls[1].op = "create"
      /\ m[p].calls[2].op = "create_tags" /\ m[p].calls[3].op = "attach"
      /\ m[p].attach_status = "attached" /\ aws.vpc[m[p].id] = "vpc-1"

\* The propagation setting of route table rt for gateway id in account a
Propagating(a, rt, id) == <<rt, id>> \in a.prop

\* C21: route propagation enable/disable issues its calls in the order of the supplied
\* list, one per route table id, each for the manager's gateway; when the loop has
\* ended every listed table has been processed once and has the new setting, and changed
\* is true (the result list is non-empty); when a call raises, the tables before it keep
\* the new setting, the table of the failing call and the tables after it keep the
\* setting they had, no further call is issued, and changed is still false.
C21_RoutePropagation ==
    \A p \in Procs :
      LET r == m[p]
          n == Len(r.calls)
          rts == r.route_table_ids
          on == r.branch = "enable"
      IN  (kind = "vpn_gw" /\ r.branch \in {"enable", "disable"}) =>
            /\ n <= Len(rts)
            /\ \A i \in 1..n : /\ r.calls[i].op = r.branch
                               /\ r.calls[i].rt = rts[i] /\ r.calls[i].id = r.id
            /\ r.pc \in {"get_info", "exit"} =>
                 /\ n = Len(rts) /\ r.changed /\ r.results
                 /\ \A i \in 1..n : Propagating(aws, rts[i], r.id) <=> on
            /\ r.pc \in {"enable", "disable"} =>
                 /\ n = r.rt_i - 1 /\ ~r.changed /\ (r.results <=> n >= 1)
            /\ r.pc = "failed" =>
                 /\ n >= 1 /\ ~r.changed
                 /\ \A i \in 1..(n - 1) : Propagating(aws, rts[i], r.id) <=> on
                 /\ \A i \in n..Len(rts) :
                      (\A j \in 1..(n - 1) : rts[j] # rts[i]) =>
                        (Propagating(aws, rts[i], r.id) <=> Propagating(r.aws0, rts[i], r.id))

C21_Witness ==
    \E p \in Procs :
      /\ kind = "vpn_gw" /\ m[p].branch = "enable" /\ m[p].pc = "failed"
      /\ m[p].route_table_ids = <<"rtb-2", "rtb-1">> /\ Len(m[p].calls) = 2
      /\ Propagating(aws, "rtb-2", m[p].id) /\ ~Propagating(m[p].aws0, "rtb-2", m[p].id)
      /\ ~Propagating(aws, "rtb-1", m[p].id)

\* C22: the report of get_info holds remote attributes only of the resource whose id is
\* the manager's id, fetched while it exists; otherwise it holds the manager's own id
\* (and ip_address) and status, never the id of a resource found by other criteria.
C22_InfoByIdOnly ==
    \A p \in Procs :
      LET r == m[p]
      IN  r.info.made =>
            /\ r.info.id = r.id
            /\ r.info.status = r.status
            /\ IF r.info.full
               THEN r.id \in aws.live /\ r.info.ip_address = aws.ip[r.id]
               ELSE r.info.ip_address = r.ip_address

\* a create / delete call of invocation r that returned
Returned(r, op) ==
    {i \in CallsOf(r, op) : ~(r.pc = "failed" /\ r.msg = RemoteMsg /\ i = Len(r.calls))}

\* C23: status is one of 'gone', 'ok', 'created', 'deleted'; it is 'ok' exactly when the
\* constructor's lookup found a resource and no create or delete has returned since;
\* 'created' or 'deleted' implies changed; and in the customer gateway and VPN
\* connection managers changed implies status 'created' or 'deleted'.
C23_StatusChanged ==
    \A p \in Procs :
      LET r == m[p]
          found == r.connected /\ Lookup(r.pid, r.tags, r.aws0).res # NoneId
      IN  /\ r.status \in {"gone", "ok", "created", "deleted"}
          /\ r.status = "ok" <=>
               (found /\ Returned(r, "create") = {} /\ Returned(r, "delete") = {})
          /\ r.status = "created" <=> Returned(r, "create") # {}
          /\ r.status = "deleted" <=> Returned(r, "delete") # {}
          /\ r.status \in {"created", "deleted"} => r.changed
          /\ (kind \in {"cgw", "vpn_conn"} /\ r.changed) => r.status \in {"created", "deleted"}

C23_Witness ==
    \E p \in Procs :
      /\ kind = "vpn_conn" /\ m[p].pc = "exit" /\ m[p].status = "ok" /\ ~m[p].changed
      /\ CallsOf(m[p], "create_tags") # {} /\ m[p].info.status = "ok"

\* C24 as stated: whatever id parameters the invocations named, at most one live
\* resource carries the tags of the sequence and no invocation aborts as ambiguous.
C24_AtMostOneAnyId ==
    run > 0 =>
      /\ Cardinality(Carrying(SeqTags, aws)) <= 1
      /\ \A p \in Procs : m[p].msg # AmbiguousMsg

\* C24: starting with no resource carrying the tags, after any sequence of
\* non-overlapping invocations with the same non-empty tags, state present or absent,
\* each naming no id or the id of a live resource that carries the tags, at most one
\* live resource carries the tags, and none of the invocations aborts as ambiguous.
C24_AtMostOneTagged ==
    (run > 0 /\ m[2].pc = "idle") =>
      /\ Cardinality(Carrying(SeqTags, aws)) <= 1
      /\ m[1].msg # AmbiguousMsg

C24_Witness ==
    /\ m[2].pc = "idle" /\ run = 3 /\ m[1].pc = "exit" /\ m[1].state = "present"
    /\ m[1].pid # NoneId /\ m[1].pid \notin m[1].aws0.nextId..MaxId
    /\ m[1].pid < m[1].aws0.nextId /\ m[1].pid \in Carrying(m[1].tags, m[1].aws0)
    /\ Carrying(SeqTags, aws) = {m[1].pid}
    /\ \E i \in m[1].aws0.live : i # m[1].pid

====
